---- MODULE Spec2Model ----
(***************************************************************************)
(* A model of ape/sampling.py (class SamplingJob): one job object, the     *)
(* QChem log it reads, and the CSV file it writes.  The job is driven      *)
(* through execute(): remove the old CSV, parse(), sampling() mode by      *)
(* mode, then persistence; afterwards the CSV writer may be called again   *)
(* on the same path.                                                       *)
(* A second part models ape/input.py: the registries of species,         *)
(* transition states and reactions, the job list, and the functions an     *)
(* input file calls on them.                                               *)
(***************************************************************************)
EXTENDS Integers, Sequences, FiniteSets, TLC

VARIABLES
    args,                \* arguments given to SamplingJob.__init__
    log,                 \* what QChemLog / ARCSpecies / the internal
                         \* coordinates report for input_file
    old_csv,             \* the file at csv_path when execute() was called
    pc,                  \* position of the caller inside execute()
    err,                 \* name of the exception that ended the run, "" if none
    phases,              \* the phases of execute() entered so far, in order
    protocol,            \* self.protocol
    ncpus,               \* self.ncpus   (None or <<n>>)
    is_ts,               \* self.is_ts
    is_QM_MM_INTERFACE,  \* self.is_QM_MM_INTERFACE
    natom,               \* self.natom
    linearity,           \* self.linearity
    rotors_dict,         \* keys of self.rotors_dict
    n_rotors,            \* self.n_rotors
    nmode,               \* self.nmode
    n_vib,               \* self.n_vib
    zpe,                 \* self.zpe
    strategy,            \* branch taken at lines 156/180: "", "UMVT" or "UMN"
    i,                   \* loop variable of the running for loop of sampling()
    mode_dict,           \* mode_dict, in insertion order
    energy_dict,         \* energy_dict, in insertion order
    min_elect,           \* local min_elect of sampling() (None while unbound)
    dips,                \* modes so far whose scan went below the centre energy
    qj_raw,              \* B . v/|v| of the vibration sampled last
    P,                   \* the matrix P of the vibration sampled last
    qj,                  \* qj handed to sampling_along_vibration last
    e_elect,             \* self.e_elect (None while unset)
    E0,                  \* self.conformer.E0 in J/mol (None while unset)
    csv,                 \* the file at self.csv_path
    plot_files,          \* the modes with a trajectory file mode_<i>.txt
    found,               \* the file as the latest writer call found it
    writes,              \* writer calls made after execute() returned
    species_dict,        \* input.species_dict
    transition_state_dict, \* input.transition_state_dict
    reaction_dict,       \* input.reaction_dict
    job_list,            \* input.job_list
    call,                \* the latest call an input file made
    raised               \* name of the exception that call raised, "" if none

envvars == <<args, log, old_csv>>

jobvars == <<protocol, ncpus, is_ts, is_QM_MM_INTERFACE, natom, linearity,
             rotors_dict, n_rotors, nmode, n_vib, zpe>>

runvars == <<strategy, i, mode_dict, energy_dict, min_elect, dips>>

projvars == <<qj_raw, P, qj>>

outvars == <<e_elect, E0, csv, plot_files, found, writes>>

samplingvars == <<envvars, pc, err, phases, jobvars, runvars, projvars, outvars>>

inputvars == <<species_dict, transition_state_dict, reaction_dict, job_list,
               call, raised>>

vars == <<samplingvars, inputvars>>

----------------------------------------------------------------------------
(* Bounds of the model *)

\* atoms in the log of a job whose parse() alone is explored
MaxAtomsParse == 9
\* atoms in the log of a job that is run to the end
MaxAtoms == 4
\* QM atoms in the QM/MM log of a job that is run to the end
MaxQmAtoms == 1
\* largest ncpus a caller passes to the constructor
MaxCpuArg == 9
\* hydrogen link atoms (ISOTOPES) of a QM/MM log
MaxHcap == 1
\* rotors ARCSpecies.determine_rotors reports
MaxRotors == 2
\* internal coordinates that are no rotors (rows of B before the rotor rows)
MaxPrimitives == 2
\* samples of a torsional scan
TorsSamples == 2
\* displaced samples on each side of a vibrational scan
Ladder == 1
\* modes of one run whose scan finds an energy below the centre geometry's
MaxDips == 1
\* calls of the CSV writer after execute() returned
MaxWrites == 1
\* the centre geometry's electronic energy is -CentreMagnitude
CentreMagnitude == 10
\* Log.load_zero_point_energy() in J/mol
ZpeOfLog == 50000
\* longest job_list to which thermo() and kinetics() still append
MaxJobs == 2

----------------------------------------------------------------------------
(* Python values *)

\* Python's None for an optional number; a present number n is <<n>>
None == << >>

Some(x) == <<x>>

\* self.protocol when the constructor got protocol=None
NoProtocol == "None"

Min(a, b) == IF a < b THEN a ELSE b

Max(a, b) == IF a < b THEN b ELSE a

\* the cap of the defaulted cpu count, and the QM/MM default
DefaultCpuCap == 8

\* constants.E_h * constants.Na, J/mol per Hartree, to the nearest integer
HartreeToJPerMol == 2625500

\* a file: whether the path exists, and its rows (each a list of cells)
Absent == [exists |-> FALSE, rows |-> << >>]

----------------------------------------------------------------------------
(* The inputs: constructor arguments and log contents *)

\* protocol=None, the two protocols, and a string that is neither
Protocols == {NoProtocol, "UMVT", "UMN", "FOO"}

\* is_ts=None is falsy and stands with FALSE
ArgsUpTo(maxCpu) == [protocol : Protocols,
                     ncpus : {None} \cup {Some(n) : n \in 1..maxCpu},
                     is_ts : BOOLEAN]

\* atoms whose coordinates ARCSpecies and is_linear see
GeomAtoms(l) == IF l.qmmm THEN l.nqm + l.nHcap ELSE l.natom

\* The logs a QChem frequency job can produce with at most maxAtoms atoms.
\*   natom     Log.get_number_of_atoms()
\*   linear    is_linear(conformer.coordinates): one atom is not linear,
\*             two atoms are
\*   qmmm      Log.is_QM_MM_INTERFACE()
\*   nqm       len(Log.get_QM_ATOMS()),  nHcap  len(Log.get_ISOTOPES())
\*   xyz_empty no QM atom has a '0  0  0  0' connect record (QM/MM only)
\*   heavy     ARCSpecies.number_of_heavy_atoms
\*   rotors    len(ARCSpecies.rotors_dict) after determine_rotors(): a
\*             rotor needs a dihedral, so four atoms off a line
\*   n_prim    internal coordinates of the geometry that are no rotors
\*   bv        the components of B . v/|v| of the first vibration, one per
\*             internal coordinate the geometry can have
LogsUpTo(maxAtoms, maxQm, maxPrim, vals) ==
    UNION { [natom : {l.natom}, linear : {l.linear}, qmmm : {l.qmmm},
             nqm : {l.nqm}, nHcap : {l.nHcap}, xyz_empty : {l.xyz_empty},
             heavy : {l.heavy}, rotors : {l.rotors}, n_prim : {l.n_prim},
             bv : [1..(l.n_prim + l.rotors) -> vals]] :
      l \in { m \in [natom : 1..maxAtoms, linear : BOOLEAN, qmmm : BOOLEAN,
                     nqm : 0..maxAtoms, nHcap : 0..MaxHcap,
                     xyz_empty : BOOLEAN, heavy : 0..maxAtoms,
                     rotors : 0..MaxRotors, n_prim : 1..maxPrim] :
                /\ m.qmmm => /\ m.nqm >= 1
                             /\ m.nqm <= m.natom
                             /\ m.nqm <= maxQm
                             /\ m.heavy = 0
                             /\ m.xyz_empty => m.rotors = 0
                /\ ~m.qmmm => /\ m.nqm = 0
                              /\ m.nHcap = 0
                              /\ ~m.xyz_empty
                              /\ m.heavy <= m.natom
                /\ GeomAtoms(m) = 1 => ~m.linear
                /\ GeomAtoms(m) = 2 => m.linear
                /\ m.linear => m.rotors = 0
                /\ m.rotors <= Max(0, GeomAtoms(m) - 3) } }

\* values a component of B . v/|v| takes where the projection is explored
QjValues == {-1, 2}

LogsParse == LogsUpTo(MaxAtomsParse, MaxAtomsParse, 1, {1})

\* the runs: every shape of job, one displacement vector; a QM/MM log has
\* MaxAtoms atoms in all, at most MaxQmAtoms of them in the QM region
ArgsRun == { a \in ArgsUpTo(1) : a.ncpus = None }

LogsRun == { l \in LogsUpTo(MaxAtoms, MaxQmAtoms, 1, {1}) :
                 /\ ~l.qmmm => l.heavy = Min(2, l.natom)
                 /\ l.qmmm => l.natom = MaxAtoms /\ l.nHcap = MaxHcap }

\* the projection: standard jobs of the largest size, every displacement
ArgsProj == { a \in ArgsUpTo(1) : a.ncpus = None /\ ~a.is_ts /\ a.protocol \in {"UMVT", "UMN"} }

LogsProj == { l \in LogsUpTo(MaxAtoms, 0, MaxPrimitives, QjValues) :
                  ~l.qmmm /\ l.natom = MaxAtoms /\ l.heavy = 2 /\ ~l.linear }

----------------------------------------------------------------------------
(* SamplingJob.parse *)

\* parse_ncpus with the cap at line 101 left out
parse_ncpus_uncapped(given, qmmm, heavy) ==
    IF given # None THEN given
    ELSE IF qmmm THEN Some(DefaultCpuCap)
    ELSE Some(heavy)

\* self.ncpus after parse
parse_ncpus(given, qmmm, heavy) ==
    IF given # None THEN given
    ELSE IF qmmm THEN Some(DefaultCpuCap)
    ELSE IF heavy > DefaultCpuCap THEN Some(DefaultCpuCap) ELSE Some(heavy)

\* SamplingJob.get_rotors_dict: keys i+1 for the keys i of species.rotors_dict
get_rotors_dict(l) ==
    IF l.qmmm /\ l.xyz_empty THEN {}
    ELSE { k + 1 : k \in 0..(l.rotors - 1) }

\* parse_nmode that forgets the reaction coordinate of a transition state
parse_nmode_keeps_ts_mode(qmmm, nqm, n, lin, ts) ==
    IF qmmm THEN 3 * nqm
    ELSE 3 * n - (IF lin THEN 5 ELSE 6)

\* self.nmode
parse_nmode(qmmm, nqm, n, lin, ts) ==
    IF qmmm THEN 3 * nqm - (IF ts THEN 1 ELSE 0)
    ELSE 3 * n - (IF lin THEN 5 ELSE 6) - (IF ts THEN 1 ELSE 0)

\* parse_n_vib that counts the rotors among the vibrations
parse_n_vib_keeps_rotors(qmmm, nqm, n, lin, ts, nrot) ==
    IF qmmm THEN 3 * nqm - (IF ts THEN 1 ELSE 0)
    ELSE 3 * n - (IF lin THEN 5 ELSE 6) - (IF ts THEN 1 ELSE 0)

\* self.n_vib
parse_n_vib(qmmm, nqm, n, lin, ts, nrot) ==
    IF qmmm THEN 3 * nqm - nrot - (IF ts THEN 1 ELSE 0)
    ELSE 3 * n - (IF lin THEN 5 ELSE 6) - nrot - (IF ts THEN 1 ELSE 0)

\* os.remove that leaves the file in place
os_remove_noop(file) == file

\* os.remove(path)
os_remove(file) == Absent

\* execute(): an existing CSV at self.csv_path is removed
ExecuteBegin ==
    /\ pc = "constructed"
    /\ csv' = IF csv.exists THEN os_remove(csv) ELSE csv
    /\ phases' = Append(phases, "remove")
    /\ pc' = "parse"
    /\ UNCHANGED <<inputvars, envvars, err, jobvars, runvars, projvars, e_elect, E0,
                   plot_files, found, writes>>

Parse ==
    /\ pc = "parse"
    /\ protocol' = IF protocol = NoProtocol THEN "UMVT" ELSE protocol
    /\ is_QM_MM_INTERFACE' = log.qmmm
    /\ natom' = IF log.qmmm THEN log.nqm + log.nHcap ELSE log.natom
    /\ ncpus' = parse_ncpus(ncpus, log.qmmm, log.heavy)
    /\ zpe' = ZpeOfLog
    /\ linearity' = log.linear
    /\ rotors_dict' = IF protocol' = "UMVT" THEN get_rotors_dict(log) ELSE {}
    /\ n_rotors' = Cardinality(rotors_dict')
    /\ nmode' = parse_nmode(log.qmmm, log.nqm, natom', linearity', is_ts)
    /\ n_vib' = parse_n_vib(log.qmmm, log.nqm, natom', linearity', is_ts, n_rotors')
    /\ phases' = Append(phases, "parse")
    /\ pc' = "parsed"
    /\ UNCHANGED <<inputvars, envvars, err, is_ts, runvars, projvars, outvars>>

\* line 32-33, and load_input_file lines 208-209
EmptySession ==
    [species_dict |-> << >>, transition_state_dict |-> << >>,
     reaction_dict |-> << >>, job_list |-> << >>]

\* the module as imported (lines 32-33), no call made yet
Imported ==
    /\ species_dict = EmptySession.species_dict
    /\ transition_state_dict = EmptySession.transition_state_dict
    /\ reaction_dict = EmptySession.reaction_dict
    /\ job_list = EmptySession.job_list
    /\ call = [fn |-> "import"]
    /\ raised = ""

\* a job as __init__ leaves it, for the arguments a, the log l and the
\* file f at its csv_path
Constructed(a, l, f) ==
    /\ args = a
    /\ log = l
    /\ old_csv = f
    /\ csv = f
    /\ pc = "constructed"
    /\ err = ""
    /\ phases = << >>
    /\ protocol = a.protocol
    /\ ncpus = a.ncpus
    /\ is_ts = a.is_ts
    /\ is_QM_MM_INTERFACE = FALSE
    /\ natom = 0
    /\ linearity = FALSE
    /\ rotors_dict = {}
    /\ n_rotors = 0
    /\ nmode = 0
    /\ n_vib = 0
    /\ zpe = 0
    /\ strategy = ""
    /\ i = 0
    /\ mode_dict = << >>
    /\ energy_dict = << >>
    /\ min_elect = None
    /\ dips = 0
    /\ qj_raw = << >>
    /\ P = << >>
    /\ qj = << >>
    /\ e_elect = None
    /\ E0 = None
    /\ plot_files = {}
    /\ found = [called |-> FALSE, file |-> Absent]
    /\ writes = 0
    /\ Imported

InitParse ==
    \E a \in ArgsUpTo(MaxCpuArg), l \in LogsParse : Constructed(a, l, Absent)

NextParse == ExecuteBegin \/ Parse

SpecParse == InitParse /\ [][NextParse]_vars

----------------------------------------------------------------------------
(* Python dicts, in insertion order: a sequence of [key, val] *)

Keys(d) == { d[k].key : k \in 1..Len(d) }

Get(d, key) == d[CHOOSE k \in 1..Len(d) : d[k].key = key].val

\* d[key] = val
Put(d, key, val) ==
    IF key \in Keys(d)
    THEN [k \in 1..Len(d) |-> IF d[k].key = key THEN [key |-> key, val |-> val] ELSE d[k]]
    ELSE Append(d, [key |-> key, val |-> val])

RECURSIVE sorted(_)
\* sorted(S) of a set of integers
sorted(S) ==
    IF S = {} THEN << >>
    ELSE LET m == CHOOSE x \in S : \A y \in S : x <= y
         IN <<m>> \o sorted(S \ {m})

Abs(x) == IF x < 0 THEN -x ELSE x

----------------------------------------------------------------------------
(* The scans of ape.common: what sampling() gets back for one mode *)

\* sample indices of a torsional scan, in the order they are stored
torsion_samples == [k \in 1..TorsSamples |-> k - 1]

\* sample indices of a vibrational scan: the centre, up the ladder, down it
vibration_samples ==
    <<0>> \o [k \in 1..Ladder |-> k] \o [k \in 1..Ladder |-> -k]

\* The energies of a scan, sample |-> total energy: the centre geometry has
\* energy -CentreMagnitude, a displaced geometry lies above it, but in a
\* scan that dips the last sample lies below it.
scan_energies(samples, dip) ==
    [k \in 1..Len(samples) |->
        [key |-> samples[k],
         val |-> IF dip /\ k = Len(samples) /\ k > 1
                 THEN -CentreMagnitude - 1
                 ELSE -CentreMagnitude + Abs(samples[k])]]

\* the lowest energy of a scan
scan_minimum(energies) ==
    CHOOSE e \in { energies[k].val : k \in 1..Len(energies) } :
        \A k \in 1..Len(energies) : e <= energies[k].val

\* sampling_along_torsion: EnergyDictOfEachMode, ModeDictOfEachMode, min_elect
sampling_along_torsion(mode, dip) ==
    LET energies == scan_energies(torsion_samples, dip)
    IN [energies |-> energies,
        record |-> [mode |-> "tors", symmetry_number |-> 3, M |-> 1,
                    K |-> mode, step_size |-> 10],
        min_elect |-> scan_minimum(energies)]

\* sampling_along_vibration: EnergyDictOfEachMode, ModeDictOfEachMode, min_elect
sampling_along_vibration(mode, dip) ==
    LET energies == scan_energies(vibration_samples, dip)
    IN [energies |-> energies,
        record |-> [mode |-> "vib", M |-> 1, K |-> mode, step_size |-> 1],
        min_elect |-> scan_minimum(energies)]

----------------------------------------------------------------------------
(* The rotor-nulling projection of sampling(), lines 194-200 *)

\* rows of self.internal.B: the primitives, then one row per rotor of
\* self.rotors_dict
B_rows == log.n_prim + Cardinality(rotors_dict)

\* np.matmul(self.internal.B, normalizes_vector) for the k-th vibration:
\* the log's vector, turned k-1 places
B_dot_v(k) ==
    [r \in 1..B_rows |-> log.bv[((r + k - 2) % B_rows) + 1]]

\* the projector that clears the first n rows instead of the last n
rotor_projector_leading(rows, n) ==
    [r \in 1..rows |-> [c \in 1..rows |->
        IF r = c /\ r > n THEN 1 ELSE 0]]

\* P: np.ones(rows), P[-n:] = 0 when n != 0, then np.diag(P)
rotor_projector(rows, n) ==
    LET ones == [r \in 1..rows |-> 1]
        p == IF n # 0
             THEN [r \in 1..rows |-> IF r > Max(0, rows - n) THEN 0 ELSE ones[r]]
             ELSE ones
    IN [r \in 1..rows |-> [c \in 1..rows |-> IF r = c THEN p[r] ELSE 0]]

RECURSIVE row_dot(_, _, _)
\* sum over c <= n of row[c] * v[c]
row_dot(row, v, n) ==
    IF n = 0 THEN 0 ELSE row_dot(row, v, n - 1) + row[n] * v[n]

\* M.dot(v)
dot(M, v) == [r \in 1..Len(M) |-> row_dot(M[r], v, Len(v))]

----------------------------------------------------------------------------
(* SamplingJob.write_samping_result_to_csv_file *)

DigitChars == <<"0", "1", "2", "3", "4", "5", "6", "7", "8", "9">>

RECURSIVE digits(_)
\* the decimal digits of n >= 0
digits(n) ==
    IF n < 10 THEN <<DigitChars[n + 1]>>
    ELSE digits(n \div 10) \o <<DigitChars[(n % 10) + 1]>>

\* the text csv.writer gives a number: a cell is a list of pieces of text
str(n) == IF n < 0 THEN <<"-">> \o digits(-n) ELSE digits(n)

\* the cell of a string
text(s) == <<s>>

\* open(csv_path, 'w'): the rows of the file are dropped
open_truncate(file) == << >>

\* open(csv_path, 'a'): the rows of the file stay, a missing file is created
open_append(file) == IF file.exists THEN file.rows ELSE << >>

\* the sample rows in the order the samples were taken
sample_rows_unsorted(energies) ==
    [k \in 1..Len(energies) |-> <<str(energies[k].key), str(energies[k].val)>>]

\* one row per sample, for sample in sorted(energy_dict[mode].keys())
sample_rows(energies) ==
    LET order == sorted(Keys(energies))
    IN [k \in 1..Len(order) |-> <<str(order[k]), str(Get(energies, order[k]))>>]

\* the rows written for one mode, lines 239-253
block_rows(mode, rec, energies) ==
    LET is_tors == rec.mode = "tors"
        name == <<"mode_">> \o str(mode) \o <<IF is_tors THEN "_tors" ELSE "_vib">>
    IN << <<name>> >>
       \o (IF is_tors
           THEN << <<text("symmetry_number"), str(rec.symmetry_number)>> >>
           ELSE << >>)
       \o << <<text("M"), str(rec.M)>>,
             <<text("K"), str(rec.K)>>,
             <<text("step_size"), str(rec.step_size)>>,
             <<text("sample"), text("total energy(HARTREE)")>> >>
       \o sample_rows(energies)

RECURSIVE mode_blocks(_, _, _)
\* the rows of the modes k..Len(md) of mode_dict, in its order
mode_blocks(md, ed, k) ==
    IF k > Len(md) THEN << >>
    ELSE block_rows(md[k].key, md[k].val, Get(ed, md[k].key))
         \o mode_blocks(md, ed, k + 1)

\* the min_elect row, written when the file did not exist
min_elect_rows(file, e) ==
    IF file.exists = FALSE THEN << <<text("min_elect"), str(e[1])>> >> ELSE << >>

\* the file after write_samping_result_to_csv_file(csv_path, md, ed)
write_samping_result_to_csv_file(file, e, md, ed) ==
    [exists |-> TRUE,
     rows |-> open_append(file) \o min_elect_rows(file, e) \o mode_blocks(md, ed, 1)]

----------------------------------------------------------------------------
(* SamplingJob.sampling *)

\* the branch of lines 156-183 that a job with protocol p and n rotors takes
sampling_strategy(p, n) ==
    IF p = "UMVT" /\ n # 0 THEN "UMVT"
    ELSE IF p = "UMN" \/ n = 0 THEN "UMN"
    ELSE ""

\* lines 156-166 and 180-183: the branch sampling() takes before the loops
SelectStrategy ==
    /\ pc = "parsed"
    /\ strategy' = sampling_strategy(protocol, n_rotors)
    /\ i' = 0
    /\ pc' = IF strategy' = "UMVT" THEN "torsions" ELSE "vibrations"
    /\ phases' = Append(phases, "sampling")
    /\ UNCHANGED <<inputvars, envvars, err, jobvars, mode_dict, energy_dict, min_elect,
                   dips, projvars, outvars>>

\* one pass of the loop of lines 167-178
SampleTorsion ==
    /\ pc = "torsions"
    /\ i < n_rotors
    /\ \E dip \in BOOLEAN :
        /\ dip => dips < MaxDips
        /\ LET mode == i + 1
               got == sampling_along_torsion(mode, dip)
           IN /\ energy_dict' = Put(energy_dict, mode, got.energies)
              /\ mode_dict' = Put(mode_dict, mode, got.record)
              /\ min_elect' = Some(got.min_elect)
        /\ dips' = dips + (IF dip THEN 1 ELSE 0)
    /\ i' = IF i + 1 < n_rotors THEN i + 1 ELSE 0
    /\ pc' = IF i + 1 < n_rotors THEN "torsions" ELSE "vibrations"
    /\ UNCHANGED <<inputvars, envvars, err, phases, jobvars, strategy, projvars, outvars>>

\* the loop of line 185 goes on at i0 and skips every i in range(n_rotors)
\* but the last skipped one still counts as sampled
next_vibration_off_by_one(i0) == IF i0 < n_rotors - 1 THEN n_rotors - 1 ELSE i0

\* the loop of line 185 goes on at i0 and skips every i in range(n_rotors)
next_vibration(i0) == IF i0 < n_rotors THEN n_rotors ELSE i0

\* one pass of the loop of lines 185-210 that is not skipped
SampleVibration ==
    /\ pc = "vibrations"
    /\ next_vibration(i) < nmode
    /\ IF strategy = ""
       THEN \* unweighted_v was never bound
            /\ err' = "UnboundLocalError"
            /\ pc' = "failed"
            /\ UNCHANGED <<i, mode_dict, energy_dict, min_elect, dips, projvars>>
       ELSE /\ LET k == next_vibration(i) - n_rotors + 1
                   n == Cardinality(rotors_dict)
               IN /\ qj_raw' = B_dot_v(k)
                  /\ P' = rotor_projector(B_rows, n)
                  /\ qj' = dot(P', qj_raw')
            /\ \E dip \in BOOLEAN :
                /\ dip => dips < MaxDips
                /\ LET mode == next_vibration(i) + 1
                       got == sampling_along_vibration(mode, dip)
                   IN /\ energy_dict' = Put(energy_dict, mode, got.energies)
                      /\ mode_dict' = Put(mode_dict, mode, got.record)
                      /\ min_elect' = Some(got.min_elect)
                /\ dips' = dips + (IF dip THEN 1 ELSE 0)
            /\ i' = next_vibration(i) + 1
            /\ UNCHANGED <<err, pc>>
    /\ UNCHANGED <<inputvars, envvars, phases, jobvars, strategy, outvars>>

\* write_sampling_displaced_geometries: one file mode_<i>.txt per mode of
\* energy_dict, opened for writing
write_sampling_displaced_geometries(ed) == Keys(ed)

\* lines 212-227, once the loop of line 185 is over: the ground-state
\* energy, the CSV written afresh, the trajectory files
Finish ==
    /\ pc = "vibrations"
    /\ next_vibration(i) >= nmode
    /\ IF min_elect = None
       THEN \* no mode was sampled: min_elect is unbound at line 213
            /\ err' = "UnboundLocalError"
            /\ pc' = "failed"
            /\ UNCHANGED <<phases, outvars>>
       ELSE /\ e_elect' = min_elect
            /\ E0' = Some(e_elect'[1] * HartreeToJPerMol + zpe)
            /\ LET cleared == IF csv.exists THEN os_remove(csv) ELSE csv
               IN /\ found' = [called |-> TRUE, file |-> cleared]
                  /\ csv' = write_samping_result_to_csv_file(
                                cleared, e_elect', mode_dict, energy_dict)
            /\ plot_files' = write_sampling_displaced_geometries(energy_dict)
            /\ phases' = Append(phases, "persist")
            /\ pc' = "done"
            /\ UNCHANGED <<err, writes>>
    /\ UNCHANGED <<inputvars, envvars, jobvars, runvars, projvars>>

\* a further call write_samping_result_to_csv_file(self.csv_path, mode_dict,
\* energy_dict) with the dicts sampling() returned
WriteAgain ==
    /\ pc = "done"
    /\ writes < MaxWrites
    /\ found' = [called |-> TRUE, file |-> csv]
    /\ csv' = write_samping_result_to_csv_file(csv, e_elect, mode_dict, energy_dict)
    /\ writes' = writes + 1
    /\ UNCHANGED <<inputvars, envvars, pc, err, phases, jobvars, runvars, projvars,
                   e_elect, E0, plot_files>>

\* the CSV an earlier execute() of a diatomic left at the same path
OldCsv ==
    LET got == sampling_along_vibration(1, TRUE)
    IN write_samping_result_to_csv_file(
           Absent, Some(got.min_elect),
           << [key |-> 1, val |-> got.record] >>,
           << [key |-> 1, val |-> got.energies] >>)

InitialFiles == {Absent, OldCsv}

Init ==
    \E a \in ArgsRun, l \in LogsRun, f \in InitialFiles : Constructed(a, l, f)

Next ==
    \/ ExecuteBegin
    \/ Parse
    \/ SelectStrategy
    \/ SampleTorsion
    \/ SampleVibration
    \/ Finish
    \/ WriteAgain

Spec == Init /\ [][Next]_vars

\* the projection is explored on standard jobs with every displacement
InitProj ==
    \E a \in ArgsProj, l \in LogsProj : Constructed(a, l, Absent)

NextProj ==
    \/ ExecuteBegin
    \/ Parse
    \/ SelectStrategy
    \/ SampleTorsion
    \/ SampleVibration

SpecProj == InitProj /\ [][NextProj]_vars

----------------------------------------------------------------------------
\* ape/input.py: the module-level registries and the functions an input
\* file calls

\* the labels an input file uses; a label is a string, here the sequence
\* of its pieces, so that label + transitionState is concatenation
SpeciesLabels == {<<"a">>, <<"b">>}

TransitionStateLabels == {<<"ts">>}

ReactionLabels == {<<"r">>, <<"r", "ts">>}

\* the positional arguments after the label: none, a path, a path and more
PositionalCounts == {0, 1, 2}

\* the value the input file gives for a keyword
KwargValue(key) ==
    CASE key = "protocol" -> "umn"
      [] key = "multiplicity" -> Some(2)
      [] key = "charge" -> Some(1)
      [] key = "E0" -> Some(5)
      [] key = "modes" -> <<"HarmonicOscillator">>
      [] key = "spinMultiplicity" -> 2
      [] key = "opticalIsomers" -> 2
      [] key = "frequency" -> Some(-500)
      [] OTHER -> 0

\* **kwargs with the keys of the set keys
kwargs_of(keys) == [k \in keys |-> KwargValue(k)]

\* the keyword sets tried: none, each single key, all the keys of some
KwargSets(keys, some) ==
    { kwargs_of(ks) : ks \in {{}} \cup { {k} : k \in keys } \cup {some} }

SpeciesKeys == {"protocol", "multiplicity", "charge"}

ExplicitKeys == {"E0", "modes", "spinMultiplicity", "opticalIsomers", "frequency"}

UnknownKey == "bogus"

\* str.upper() on the protocol names an input file gives
upper(s) ==
    CASE s = "umn" -> "UMN"
      [] s = "umvt" -> "UMVT"
      [] OTHER -> s

\* str.lower() on the tunneling names an input file gives
lower(s) ==
    CASE s = "Wigner" -> "wigner"
      [] s = "Eckart" -> "eckart"
      [] OTHER -> s

TunnelingNames == {"", "Wigner", "eckart", "foo"}

\* os.path.join(directory, args[0]): the quantum job file of a label
path_of(label) == label \o <<".out">>

\* d[key] = val on a dict
setitem(d, key, val) ==
    [k \in (DOMAIN d) \cup {key} |-> IF k = key THEN val ELSE d[k]]

\* SamplingJob(label=label, input_file=path, output_directory=...) with
\* is_ts left at its default (None) or given (Some(TRUE)); the other
\* arguments are left at None
NewSamplingJob(label, ts) ==
    [class |-> "SamplingJob", label |-> Some(label),
     input_file |-> Some(path_of(label)), is_ts |-> ts,
     protocol |-> NoProtocol, multiplicity |-> None, charge |-> None,
     reaction |-> None]

\* ThermoJob(label=label, input_file=input_file, ...)
NewThermoJob(label, input_file) ==
    [class |-> "ThermoJob", label |-> Some(label),
     input_file |-> Some(input_file), is_ts |-> None,
     protocol |-> NoProtocol, multiplicity |-> None, charge |-> None,
     reaction |-> None]

\* KineticsJob(reaction=rxn, ...)
NewKineticsJob(rxn) ==
    [class |-> "KineticsJob", label |-> None, input_file |-> None,
     is_ts |-> None, protocol |-> NoProtocol, multiplicity |-> None,
     charge |-> None, reaction |-> Some(rxn)]

\* QChemLog(path).load_conformer()[0]
load_conformer(path) ==
    [E0 |-> None, modes |-> <<"log">>, spin_multiplicity |-> 1,
     optical_isomers |-> 1]

\* QChemLog(path).load_negative_frequency()
load_negative_frequency(path) == -1

\* Conformer(E0=..., modes=..., spin_multiplicity=..., optical_isomers=...)
\* with the defaults of lines 101-104 for the keys not given
Conformer(kwargs) ==
    LET given(key, default) == IF key \in DOMAIN kwargs THEN kwargs[key] ELSE default
    IN [E0 |-> given("E0", None), modes |-> given("modes", << >>),
        spin_multiplicity |-> given("spinMultiplicity", 1),
        optical_isomers |-> given("opticalIsomers", 1)]

\* the outcome of a call: the exception raised ("" if none) and the session
Outcome(exc, s) == [raised |-> exc, session |-> s]

\* the job appended last, with protocol, multiplicity and charge set
\* (lines 75-77: job is the object appended at line 54)
set_job_attributes(jl, p, m, c) ==
    [jl EXCEPT ![Len(jl)] = [@ EXCEPT !.protocol = p, !.multiplicity = m, !.charge = c]]

\* line 40 never true: a label given twice replaces the entry
species_is_duplicate_never(label, s) == FALSE

\* line 40
species_is_duplicate(label, s) == label \in DOMAIN s.species_dict

\* species(label, *args, **kwargs) with nargs positional arguments
species(label, nargs, kwargs, s) ==
    IF species_is_duplicate(label, s) THEN Outcome("ValueError", s)
    ELSE
    LET registered == [s EXCEPT !.species_dict =
                          setitem(@, label, [label |-> label, conformer |-> None])]
        loaded == [registered EXCEPT
                      !.species_dict = setitem(@, label,
                          [label |-> label,
                           conformer |-> Some(load_conformer(path_of(label)))]),
                      !.job_list = Append(@, NewSamplingJob(label, None))]
        s1 == IF nargs = 1 THEN loaded ELSE registered
        given(key) == IF key \in DOMAIN kwargs THEN kwargs[key] ELSE None
    IN IF nargs > 1 THEN Outcome("InputError", registered)
       ELSE IF DOMAIN kwargs = {} THEN Outcome("", s1)
       ELSE IF ~(DOMAIN kwargs \subseteq SpeciesKeys) THEN Outcome("TypeError", s1)
       ELSE IF nargs = 0 THEN Outcome("UnboundLocalError", s1)
       ELSE Outcome("", [s1 EXCEPT !.job_list =
                set_job_attributes(@,
                    IF "protocol" \in DOMAIN kwargs
                    THEN upper(kwargs["protocol"]) ELSE "UMVT",
                    given("multiplicity"), given("charge"))])

\* transitionState(label, *args, **kwargs) with nargs positional arguments
transitionState(label, nargs, kwargs, s) ==
    IF label \in DOMAIN s.transition_state_dict THEN Outcome("ValueError", s)
    ELSE
    LET ts == [label |-> label, conformer |-> None, frequency |-> None,
               tunneling |-> "None"]
        registered == [s EXCEPT !.transition_state_dict = setitem(@, label, ts)]
        loaded == [s EXCEPT
                      !.transition_state_dict = setitem(@, label,
                          [ts EXCEPT !.conformer = Some(load_conformer(path_of(label))),
                                     !.frequency = Some(load_negative_frequency(path_of(label)))]),
                      !.job_list = Append(@, NewSamplingJob(label, Some(TRUE)))]
        explicit == [s EXCEPT
                      !.transition_state_dict = setitem(@, label,
                          [ts EXCEPT !.conformer = Some(Conformer(kwargs)),
                                     !.frequency = IF "frequency" \in DOMAIN kwargs
                                                   THEN kwargs["frequency"] ELSE None])]
    IN IF nargs = 1
       THEN IF DOMAIN kwargs = {} THEN Outcome("", loaded)
            ELSE IF DOMAIN kwargs # {"protocol"} THEN Outcome("TypeError", loaded)
            ELSE Outcome("", [loaded EXCEPT !.job_list =
                     [@ EXCEPT ![Len(@)].protocol = upper(kwargs["protocol"])]])
       ELSE IF nargs = 0
       THEN IF ~(DOMAIN kwargs \subseteq ExplicitKeys) THEN Outcome("TypeError", registered)
            ELSE IF DOMAIN kwargs = {} THEN Outcome("", explicit)
            ELSE Outcome("TypeError", explicit)
       ELSE Outcome("InputError", registered)

\* sorted(...) of the list of at most one Species that a reaction names
sorted_species(list) == list

\* reaction(label, reactants, products, transitionState, kinetics=None,
\* tunneling) with transitionState None or Some(label of a transition state)
reaction(label, reactants, products, ts_arg, tunneling, s) ==
    LET rd == s.reaction_dict
        clash == label \in DOMAIN rd
        label1 == IF clash /\ ts_arg # None THEN label \o ts_arg[1] ELSE label
        has_ts == ts_arg # None
        tunnel(model) == [s EXCEPT !.transition_state_dict =
                             [@ EXCEPT ![ts_arg[1]].tunneling = model]]
        register(s1) == [s1 EXCEPT !.reaction_dict = setitem(@, label1,
                            [label |-> label1,
                             reactants |-> sorted_species(reactants),
                             products |-> sorted_species(products),
                             transition_state |-> ts_arg,
                             kinetics |-> None])]
    IN IF clash /\ ts_arg = None THEN Outcome("TypeError", s)
       ELSE IF clash /\ label1 \in DOMAIN rd THEN Outcome("ValueError", s)
       ELSE IF \E k \in 1..Len(reactants) : reactants[k] \notin DOMAIN s.species_dict
            THEN Outcome("KeyError", s)
       ELSE IF \E k \in 1..Len(products) : products[k] \notin DOMAIN s.species_dict
            THEN Outcome("KeyError", s)
       ELSE IF has_ts /\ ts_arg[1] \notin DOMAIN s.transition_state_dict
            THEN Outcome("KeyError", s)
       ELSE IF has_ts /\ tunneling = "" THEN Outcome("", register(tunnel("None")))
       ELSE IF lower(tunneling) = "wigner"
            THEN IF has_ts THEN Outcome("", register(tunnel("Wigner")))
                 ELSE Outcome("AttributeError", s)
       ELSE IF lower(tunneling) = "eckart"
            THEN IF has_ts THEN Outcome("", register(tunnel("Eckart")))
                 ELSE Outcome("AttributeError", s)
       ELSE IF has_ts THEN Outcome("ValueError", s)
       ELSE Outcome("", register(s))

\* the jobs of the list whose label attribute is label (line 179)
jobs_labelled(jl, label) == { k \in 1..Len(jl) : jl[k].label = Some(label) }

\* lines 174-177 without the try: the KeyError of the lookup gets out
thermo_lets_KeyError_out(label, readable, s) ==
    IF label \notin DOMAIN s.species_dict THEN Outcome("KeyError", s)
    ELSE Outcome("", s)

\* thermo(label); readable tells whether the KineticsJob objects of
\* job_list have a label attribute for line 179 to read
thermo(label, readable, s) ==
    LET jl == s.job_list
        found_jobs == jobs_labelled(jl, label)
        last == CHOOSE k \in found_jobs : \A j \in found_jobs : j <= k
    IN IF label \notin DOMAIN s.species_dict THEN Outcome("ValueError", s)
       ELSE IF ~readable /\ \E k \in 1..Len(jl) : jl[k].class = "KineticsJob"
            THEN Outcome("AttributeError", s)
       ELSE IF found_jobs = {} THEN Outcome("UnboundLocalError", s)
       ELSE Outcome("", [s EXCEPT !.job_list =
                Append(@, NewThermoJob(label, jl[last].input_file[1]))])

\* kinetics(label)
kinetics(label, s) ==
    IF label \notin DOMAIN s.reaction_dict THEN Outcome("ValueError", s)
    ELSE Outcome("", [s EXCEPT !.job_list = Append(@, NewKineticsJob(label))])

\* the registries and the job list of the module
Session ==
    [species_dict |-> species_dict, transition_state_dict |-> transition_state_dict,
     reaction_dict |-> reaction_dict, job_list |-> job_list]

\* the module after a call ended with outcome o
Returns(o) ==
    /\ raised' = o.raised
    /\ species_dict' = o.session.species_dict
    /\ transition_state_dict' = o.session.transition_state_dict
    /\ reaction_dict' = o.session.reaction_dict
    /\ job_list' = o.session.job_list
    /\ UNCHANGED samplingvars

\* load_input_file, lines 204-209: a new input file starts from empty
\* registries
LoadInputFile ==
    /\ call' = [fn |-> "load_input_file"]
    /\ Returns(Outcome("", EmptySession))

\* a call of species with one of the given argument counts and keyword sets
CallSpecies(counts, keywords) ==
    \E label \in SpeciesLabels, nargs \in counts, kwargs \in keywords :
        /\ call' = [fn |-> "species", label |-> label, nargs |-> nargs,
                    keys |-> DOMAIN kwargs]
        /\ Returns(species(label, nargs, kwargs, Session))

\* a call of transitionState with one of the given argument counts and
\* keyword sets
CallTransitionState(counts, keywords) ==
    \E label \in TransitionStateLabels, nargs \in counts, kwargs \in keywords :
        /\ call' = [fn |-> "transitionState", label |-> label, nargs |-> nargs,
                    keys |-> DOMAIN kwargs]
        /\ Returns(transitionState(label, nargs, kwargs, Session))

\* the reactions of the input file turn a into b
Reactants == {<< <<"a">> >>}

Products == {<< <<"b">> >>}

CallReaction ==
    \E label \in ReactionLabels, reactants \in Reactants, products \in Products,
       ts_arg \in {None} \cup { Some(l) : l \in TransitionStateLabels },
       tunneling \in TunnelingNames :
        /\ call' = [fn |-> "reaction", label |-> label, reactants |-> reactants,
                    products |-> products, transitionState |-> ts_arg]
        /\ Returns(reaction(label, reactants, products, ts_arg, tunneling, Session))

CallThermo ==
    /\ Len(job_list) < MaxJobs
    /\ \E label \in SpeciesLabels, readable \in BOOLEAN :
        /\ call' = [fn |-> "thermo", label |-> label]
        /\ Returns(thermo(label, readable, Session))

CallKinetics ==
    /\ Len(job_list) < MaxJobs
    /\ \E label \in ReactionLabels :
        /\ call' = [fn |-> "kinetics", label |-> label]
        /\ Returns(kinetics(label, Session))

InitInput ==
    Constructed(CHOOSE a \in ArgsRun : TRUE, CHOOSE l \in LogsRun : TRUE, Absent)

\* the keyword sets of species and of transitionState calls
SpeciesKwargs == KwargSets(SpeciesKeys \cup {UnknownKey}, SpeciesKeys)

TransitionStateKwargs ==
    KwargSets(ExplicitKeys \cup {"protocol", UnknownKey}, ExplicitKeys)

NoKwargs == {kwargs_of({})}

\* input files whose species and transition states give a label and at
\* most a path
NextInput ==
    \/ LoadInputFile
    \/ CallSpecies({0, 1}, NoKwargs)
    \/ CallTransitionState({0, 1}, NoKwargs)
    \/ CallReaction
    \/ CallThermo
    \/ CallKinetics

SpecInput == InitInput /\ [][NextInput]_vars

\* input files that only declare species and transition states, with
\* every count of arguments and the keyword sets above
NextDeclare ==
    \/ LoadInputFile
    \/ CallSpecies(PositionalCounts, SpeciesKwargs)
    \/ CallTransitionState(PositionalCounts, TransitionStateKwargs)

SpecDeclare == InitInput /\ [][NextDeclare]_vars

----------------------------------------------------------------------------
(* Claims about parse *)

\* parse() has returned
Parsed == pc \notin {"constructed", "parse"}

TsMode == IF is_ts THEN 1 ELSE 0

RigidModes == IF linearity THEN 5 ELSE 6

\* C1: after parse the mode counts equal the policy table: a standard job
\* has nmode = 3*natom - (5 if linear else 6) - (1 if TS), a QM/MM job has
\* nmode = 3*n_qm_atoms - (1 if TS), and in both n_vib = nmode - n_rotors;
\* a nonlinear non-TS job without rotors has n_vib = 3*natom - 6, and a TS
\* has one mode fewer than the same molecule that is not a TS.
C1_ModeCountsFollowPolicyTable ==
    Parsed =>
        /\ ~is_QM_MM_INTERFACE => nmode = 3 * natom - RigidModes - TsMode
        /\ is_QM_MM_INTERFACE => nmode = 3 * log.nqm - TsMode
        /\ n_vib = nmode - n_rotors
        /\ (~is_QM_MM_INTERFACE /\ ~linearity /\ ~is_ts /\ n_rotors = 0)
               => n_vib = 3 * natom - 6
        /\ is_ts => nmode + 1 = (IF is_QM_MM_INTERFACE THEN 3 * log.nqm
                                 ELSE 3 * natom - RigidModes)

\* a parsed transition state with a rotor, and so four atoms or more
C1_Witness ==
    /\ pc = "parsed"
    /\ is_ts
    /\ n_rotors > 0
    /\ ~is_QM_MM_INTERFACE
    /\ natom >= 4
    /\ nmode = 3 * natom - 7

\* C2 as the specification states it: n_vib + n_rotors + (1 if TS) == nmode
\* == 3*natom - (5 if linear else 6) - (1 if TS) + n_rotors for every
\* parsed job that is not QM/MM.
C2_ConservationAsStated ==
    (Parsed /\ ~is_QM_MM_INTERFACE) =>
        /\ n_vib + n_rotors + TsMode = nmode
        /\ nmode = 3 * natom - RigidModes - TsMode + n_rotors

\* C2 amended: for every parsed job that is not QM/MM the vibrations, the
\* rotors and the reaction coordinate of a TS add up to the internal
\* degrees of freedom, n_vib + n_rotors + (1 if TS) == 3*natom - (5 if
\* linear else 6), and nmode == n_vib + n_rotors counts all of them but the
\* reaction coordinate.
C2_Conservation ==
    (Parsed /\ ~is_QM_MM_INTERFACE) =>
        /\ n_vib + n_rotors + TsMode = 3 * natom - RigidModes
        /\ nmode = n_vib + n_rotors

\* a parsed standard transition state with two rotors
C2_Witness ==
    /\ pc = "parsed"
    /\ ~is_QM_MM_INTERFACE
    /\ is_ts
    /\ n_rotors = 2
    /\ n_vib + 2 = nmode

\* C10 as the specification states it: after parse ncpus is at most 8 for
\* every job, supplied or defaulted, and a defaulted ncpus is the heavy-atom
\* count under that cap (8 for a QM/MM job).
C10_CpuHintAlwaysCapped ==
    Parsed =>
        /\ ncpus # None
        /\ ncpus[1] <= 8
        /\ args.ncpus = None =>
               ncpus = Some(IF is_QM_MM_INTERFACE THEN 8 ELSE Min(log.heavy, 8))

\* C10 amended: a ncpus the caller did not supply defaults to the
\* heavy-atom count capped at 8 (8 for a QM/MM job); a ncpus the caller
\* supplied is kept as given, whatever its size.
C10_CpuHintCappedWhenDefaulted ==
    Parsed =>
        /\ args.ncpus = None =>
               /\ ncpus = Some(IF is_QM_MM_INTERFACE THEN 8 ELSE Min(log.heavy, 8))
               /\ ncpus[1] <= 8
        /\ args.ncpus # None => ncpus = args.ncpus

\* a defaulted ncpus of a standard job with more than 8 heavy atoms
C10_Witness ==
    /\ pc = "parsed"
    /\ args.ncpus = None
    /\ ~log.qmmm
    /\ log.heavy > 8
    /\ ncpus = Some(8)

----------------------------------------------------------------------------
(* Claims about sampling *)

\* every energy of every sample of every mode in energy_dict
AllEnergies ==
    UNION { { energy_dict[k].val[s].val : s \in 1..Len(energy_dict[k].val) } :
            k \in 1..Len(energy_dict) }

\* C3: after sampling, e_elect is the minimum electronic energy over all
\* samples of all modes, whatever the order of the modes, and conformer.E0
\* is that energy in J/mol plus the zero-point energy.
C3_GroundStateIsGlobalMinimum ==
    pc = "done" =>
        /\ e_elect # None
        /\ e_elect[1] \in AllEnergies
        /\ \A e \in AllEnergies : e_elect[1] <= e
        /\ E0 = Some(e_elect[1] * HartreeToJPerMol + zpe)

\* sampling() has chosen its branch
Sampling == pc \in {"torsions", "vibrations", "done", "failed"}

\* C4: sampling fails with InputError whenever the protocol was unset or is
\* not a recognized one, and in every other case exactly one of the two
\* strategies is selected before any mode is sampled.
C4_InputErrorUnlessProtocolResolves ==
    /\ (Sampling /\ args.protocol \notin {"UMVT", "UMN"})
           => (pc = "failed" /\ err = "InputError" /\ mode_dict = << >>)
    /\ (Sampling /\ args.protocol \in {"UMVT", "UMN"})
           => (strategy \in {"UMVT", "UMN"} /\ err # "InputError")

ModesOfKind(kind) ==
    { k \in 1..Len(mode_dict) : mode_dict[k].val.mode = kind }

\* C5: sampling returns exactly nmode records keyed 1..nmode in increasing
\* order, in mode_dict and in energy_dict alike; the modes 1..n_rotors are
\* torsions and the other n_vib modes are vibrations; under UMN there is no
\* rotor and no torsion, and three atoms off a line give three records.
C5_OneRecordPerModeInOrder ==
    pc = "done" =>
        /\ Len(mode_dict) = nmode
        /\ Len(energy_dict) = nmode
        /\ \A k \in 1..nmode : mode_dict[k].key = k /\ energy_dict[k].key = k
        /\ ModesOfKind("tors") = 1..n_rotors
        /\ ModesOfKind("vib") = (n_rotors + 1)..nmode
        /\ Cardinality(ModesOfKind("vib")) = n_vib
        /\ protocol = "UMN" => (n_rotors = 0 /\ ModesOfKind("tors") = {})
        /\ (protocol = "UMN" /\ ~is_QM_MM_INTERFACE /\ natom = 3
              /\ ~linearity /\ ~is_ts) => Len(mode_dict) = 3

\* a finished UMVT run with a torsion and vibrations
C5_Witness ==
    /\ pc = "done"
    /\ protocol = "UMVT"
    /\ strategy = "UMVT"
    /\ n_rotors >= 1
    /\ n_vib >= 1
    /\ Len(mode_dict) = n_rotors + n_vib

RECURSIVE entry_sum(_, _, _, _)
\* sum over k <= n of A[r][k] * B[k][c]
entry_sum(A, B, rc, n) ==
    IF n = 0 THEN 0
    ELSE entry_sum(A, B, rc, n - 1) + A[rc[1]][n] * B[n][rc[2]]

\* the matrix product of two square matrices
Product(A, B) ==
    [r \in 1..Len(A) |-> [c \in 1..Len(A) |-> entry_sum(A, B, <<r, c>>, Len(A))]]

\* C6: for every vibration the projector P is a diagonal matrix of zeros
\* and ones with P.P = P; qj = P.(B.v) is zero in the last n_rotors
\* components, those of the rotor coordinates, and equal to B.v in every
\* other; without rotors P is the identity.
C6_RotorProjector ==
    P # << >> =>
        LET rows == Len(P)
        IN /\ rows = B_rows
           /\ \A r, c \in 1..rows :
                  /\ P[r][c] \in {0, 1}
                  /\ r # c => P[r][c] = 0
           /\ Product(P, P) = P
           /\ Len(qj) = rows
           /\ \A r \in 1..rows :
                  qj[r] = IF r > rows - n_rotors THEN 0 ELSE qj_raw[r]
           /\ n_rotors = 0 => \A r \in 1..rows : P[r][r] = 1

\* a vibration of a job with a rotor: a rotor component of B.v was not
\* zero and is zero in qj, another component is kept
C6_Witness ==
    /\ P # << >>
    /\ n_rotors >= 1
    /\ Len(P) > n_rotors
    /\ qj_raw[Len(P)] # 0
    /\ qj[Len(P)] = 0
    /\ qj[1] = qj_raw[1]
    /\ qj[1] # 0

----------------------------------------------------------------------------
(* Claims about the CSV file *)

\* the digit a character stands for
DigitValue(ch) == CHOOSE d \in 0..9 : DigitChars[d + 1] = ch

RECURSIVE read_digits(_)
read_digits(cell) ==
    IF Len(cell) = 0 THEN 0
    ELSE 10 * read_digits(SubSeq(cell, 1, Len(cell) - 1)) + DigitValue(cell[Len(cell)])

\* the number a reader of the CSV gets from a cell
read_int(cell) ==
    IF cell[1] = "-" THEN -read_digits(Tail(cell)) ELSE read_digits(cell)

RECURSIVE header_rows(_, _)
\* the rows of one cell from row r on, in file order: the mode_<i>_tors
\* and mode_<i>_vib rows
header_rows(rows, r) ==
    IF r > Len(rows) THEN << >>
    ELSE (IF Len(rows[r]) = 1 THEN <<r>> ELSE << >>) \o header_rows(rows, r + 1)

MinElectRows(rows) == { r \in 1..Len(rows) : rows[r][1] = <<"min_elect">> }

\* the blocks of the file: each from a header row to the row before the
\* next header row
Blocks(rows) ==
    LET h == header_rows(rows, 1)
    IN [k \in 1..Len(h) |->
           SubSeq(rows, h[k], IF k = Len(h) THEN Len(rows) ELSE h[k + 1] - 1)]

\* block b has the header of mode entry m (a [key, val] of mode_dict)
BlockHeaderIs(b, m) ==
    /\ Len(b[1]) = 1
    /\ b[1][1][1] = "mode_"
    /\ read_int(SubSeq(b[1][1], 2, Len(b[1][1]) - 1)) = m.key
    /\ b[1][1][Len(b[1][1])] = (IF m.val.mode = "tors" THEN "_tors" ELSE "_vib")

\* block b is the block of mode entry m with the samples of energies
BlockIs(b, m, energies) ==
    LET tors == m.val.mode = "tors"
        meta == IF tors THEN 1 ELSE 0
        first == 6 + meta
    IN /\ Len(b) = 5 + meta + Len(energies)
       /\ BlockHeaderIs(b, m)
       /\ tors => b[2] = << <<"symmetry_number">>, str(m.val.symmetry_number) >>
       /\ b[2 + meta] = << <<"M">>, str(m.val.M) >>
       /\ b[3 + meta] = << <<"K">>, str(m.val.K) >>
       /\ b[4 + meta] = << <<"step_size">>, str(m.val.step_size) >>
       /\ b[5 + meta] = << <<"sample">>, <<"total energy(HARTREE)">> >>
       /\ \A r \in first..Len(b) : Len(b[r]) = 2
       /\ \A r \in first..(Len(b) - 1) : read_int(b[r][1]) < read_int(b[r + 1][1])
       /\ { <<read_int(b[r][1]), read_int(b[r][2])>> : r \in first..Len(b) }
              = { <<energies[k].key, energies[k].val>> : k \in 1..Len(energies) }

\* C7: each call of the writer emits one block per mode of mode_dict, in
\* its order: the row mode_<i>_tors or mode_<i>_vib, a symmetry_number row
\* for a torsion only, the rows M, K, step_size, the row ['sample',
\* 'total energy(HARTREE)'], then one row per sample in strictly increasing
\* sample index; read back, the sample rows give the mapping sample ->
\* energy of energy_dict for that mode.
C7_CsvBlocksRoundTrip ==
    pc = "done" =>
        LET n == Len(mode_dict)
            blocks == Blocks(csv.rows)
        IN /\ Len(blocks) = (1 + writes) * n
           /\ \A j \in 1..Len(blocks) :
                  LET m == mode_dict[((j - 1) % n) + 1]
                  IN BlockIs(blocks[j], m, Get(energy_dict, m.key))

\* a written file with a torsion block and a vibration block whose samples
\* were not taken in increasing order
C7_Witness ==
    /\ pc = "done"
    /\ ModesOfKind("tors") # {}
    /\ \E k \in ModesOfKind("vib") :
           \E s \in 1..(Len(energy_dict[k].val) - 1) :
               energy_dict[k].val[s].key > energy_dict[k].val[s + 1].key
    /\ Len(Blocks(csv.rows)) = Len(mode_dict)

IsPrefix(s, t) == Len(s) <= Len(t) /\ SubSeq(t, 1, Len(s)) = s

\* C8: the writer only appends: the rows the latest call found are an
\* unchanged prefix of the file it left; the min_elect row is added by the
\* call that finds no file and by no other, so that the file never holds
\* more than one min_elect row.
C8_WriterOnlyAppends ==
    /\ csv.exists => Cardinality(MinElectRows(csv.rows)) <= 1
    /\ found.called =>
           /\ csv.exists
           /\ IsPrefix(found.file.rows, csv.rows)
           /\ Len(csv.rows) > Len(found.file.rows)
           /\ Cardinality(MinElectRows(csv.rows))
                  = Cardinality(MinElectRows(found.file.rows))
                        + (IF found.file.exists THEN 0 ELSE 1)

\* a call of the writer that found the file of the run and added to it
C8_Witness ==
    /\ writes >= 1
    /\ found.called
    /\ found.file.exists
    /\ Len(found.file.rows) > 0
    /\ Len(csv.rows) > Len(found.file.rows)

\* C9: execute runs the removal of the old CSV, parse, sampling and
\* persistence in that order; from its first step until persistence there
\* is no file at the path, and the file execute leaves holds the new run
\* alone: the min_elect row of this run first and no other, then exactly
\* one block per mode 1..nmode.
C9_ExecuteRegeneratesCsv ==
    /\ pc \notin {"constructed", "done"} => ~csv.exists
    /\ pc = "done" => phases = <<"remove", "parse", "sampling", "persist">>
    /\ (pc = "done" /\ writes = 0) =>
           /\ csv.exists
           /\ csv.rows[1] = << <<"min_elect">>, str(e_elect[1]) >>
           /\ MinElectRows(csv.rows) = {1}
           /\ header_rows(csv.rows, 1) # << >>
           /\ header_rows(csv.rows, 1)[1] = 2
           /\ LET blocks == Blocks(csv.rows)
              IN /\ Len(blocks) = nmode
                 /\ \A k \in 1..nmode :
                        BlockIs(blocks[k], mode_dict[k], Get(energy_dict, k))

\* execute has finished on a path that held the CSV of an earlier run, and
\* the file is another
C9_Witness ==
    /\ pc = "done"
    /\ writes = 0
    /\ old_csv.exists
    /\ csv.exists
    /\ csv # old_csv

----------------------------------------------------------------------------
\* duplicate and unknown labels in ape/input.py

\* the registries and the job list are as they were before the step
SessionUnchanged ==
    UNCHANGED <<species_dict, transition_state_dict, reaction_dict, job_list>>

\* the step is a call of fn whose label is a key of the registry d already
DuplicateCall(fn, d) == call'.fn = fn /\ call'.label \in DOMAIN d

\* C11 as stated: within one input-parsing session, a call of species,
\* transitionState or reaction with a label that is already in the
\* corresponding registry raises ValueError and registers nothing, so that
\* no registry ever holds more than one entry for a label the caller gave.
C11_DuplicateLabelAlwaysFatal ==
    [][ (\/ DuplicateCall("species", species_dict)
         \/ DuplicateCall("transitionState", transition_state_dict)
         \/ DuplicateCall("reaction", reaction_dict))
        => (raised' = "ValueError" /\ SessionUnchanged) ]_vars

\* C11 amended: species and transitionState with a registered label raise
\* ValueError and change nothing.  reaction with a registered label goes on
\* under the key label + transitionState: TypeError when no transition state
\* is named, ValueError when that key is registered too, and otherwise the
\* entry under label stays as it was and the only key a successful call adds
\* is label + transitionState; whenever the call raises, nothing changes.
C11_DuplicateLabel ==
    [][ /\ DuplicateCall("species", species_dict)
            => (raised' = "ValueError" /\ SessionUnchanged)
        /\ DuplicateCall("transitionState", transition_state_dict)
            => (raised' = "ValueError" /\ SessionUnchanged)
        /\ DuplicateCall("reaction", reaction_dict)
            => LET label == call'.label
                   ts == call'.transitionState
               IN IF ts = None
                  THEN raised' = "TypeError" /\ SessionUnchanged
                  ELSE IF label \o ts[1] \in DOMAIN reaction_dict
                  THEN raised' = "ValueError" /\ SessionUnchanged
                  ELSE /\ raised' # "" => SessionUnchanged
                       /\ raised' = "" =>
                            /\ DOMAIN reaction_dict' =
                                   DOMAIN reaction_dict \cup {label \o ts[1]}
                            /\ reaction_dict'[label] = reaction_dict[label]
                            /\ reaction_dict'[label \o ts[1]].label = label \o ts[1]
      ]_vars

\* a reaction call has just been refused with ValueError since both its
\* label and label + transitionState are registered
C11_Witness ==
    /\ call.fn = "reaction"
    /\ raised = "ValueError"
    /\ call.transitionState # None
    /\ call.label \in DOMAIN reaction_dict
    /\ call.label \o call.transitionState[1] \in DOMAIN reaction_dict

\* the step is a call of reaction that names a species or a transition
\* state that is not registered
NamesUnknown ==
    /\ call'.fn = "reaction"
    /\ \/ \E k \in 1..Len(call'.reactants) :
             call'.reactants[k] \notin DOMAIN species_dict
       \/ \E k \in 1..Len(call'.products) :
             call'.products[k] \notin DOMAIN species_dict
       \/ /\ call'.transitionState # None
          /\ call'.transitionState[1] \notin DOMAIN transition_state_dict

\* C12: thermo(label) with a label that is not in the species registry,
\* kinetics(label) with a label that is not in the reaction registry, and
\* reaction(...) naming an unregistered species or transition state each
\* raise InputError and add no job and no reaction.
C12_UnknownLabelIsInputError ==
    [][ (\/ call'.fn = "thermo" /\ call'.label \notin DOMAIN species_dict
         \/ call'.fn = "kinetics" /\ call'.label \notin DOMAIN reaction_dict
         \/ NamesUnknown)
        => /\ raised' = "InputError"
           /\ job_list' = job_list
           /\ reaction_dict' = reaction_dict ]_vars

\* C12 amended: thermo(label) with a label that is not in the species
\* registry and kinetics(label) with a label that is not in the reaction
\* registry raise ValueError; reaction(...) naming an unregistered species
\* or transition state raises KeyError, unless its label is registered and
\* the duplicate-label check ends the call first (TypeError with no
\* transition state named, ValueError when label + transitionState is
\* registered too).  None raises InputError, and none adds a job or a
\* reaction or changes a registry.
C12_UnknownLabelIsRefused ==
    [][ /\ (call'.fn = "thermo" /\ call'.label \notin DOMAIN species_dict)
            => (raised' = "ValueError" /\ SessionUnchanged)
        /\ (call'.fn = "kinetics" /\ call'.label \notin DOMAIN reaction_dict)
            => (raised' = "ValueError" /\ SessionUnchanged)
        /\ NamesUnknown
            => /\ SessionUnchanged
               /\ raised' =
                    IF call'.label \notin DOMAIN reaction_dict THEN "KeyError"
                    ELSE IF call'.transitionState = None THEN "TypeError"
                    ELSE IF call'.label \o call'.transitionState[1]
                                \in DOMAIN reaction_dict THEN "ValueError"
                    ELSE "KeyError"
      ]_vars

\* thermo has just been refused for a label that is not registered, in a
\* session that holds jobs already
C12_Witness ==
    /\ call.fn = "thermo"
    /\ raised = "ValueError"
    /\ call.label \notin DOMAIN species_dict
    /\ job_list # << >>

\* C13: transitionState with no file path and a non-empty set of the keys
\* E0, modes, spinMultiplicity, opticalIsomers, frequency returns, without
\* raising, a TransitionState whose conformer is built from those values;
\* with neither a file path nor a keyword it raises InputError.
C13_ExplicitTransitionState ==
    [][ (/\ call'.fn = "transitionState"
         /\ call'.label \notin DOMAIN transition_state_dict
         /\ call'.nargs = 0
         /\ call'.keys \subseteq ExplicitKeys)
        => IF call'.keys = {}
           THEN raised' = "InputError"
           ELSE /\ raised' = ""
                /\ call'.label \in DOMAIN transition_state_dict'
                /\ transition_state_dict'[call'.label].conformer =
                       Some(Conformer(kwargs_of(call'.keys))) ]_vars

====
